---------------------------- MODULE Spec2Model ----------------------------
(***************************************************************************)
(* A model of the magnitude pruner (src/src/utils/prune.py), of the PGD    *)
(* attack (src/src/attacks/pgd.py) and of the dense training loop          *)
(* (src/src/trainers/dense_trainer.py).                                    *)
(*                                                                         *)
(* Tensors.  A weight of shape (out, *rest) is held in the layout of       *)
(* w.view(out, -1): a sequence of `out' rows, each a sequence of n         *)
(* integers.  A mask has the same layout with entries 0 and 1.             *)
(*                                                                         *)
(* Fractions.  A sparsity fraction is an exact rational [num, den]; the    *)
(* code's int(perc * count) is the truncated quotient.  Floating point     *)
(* rounding is not modelled.  L2 norms are compared through their squares, *)
(* which orders them the same way.                                         *)
(***************************************************************************)
EXTENDS Integers, Sequences, FiniteSets, TLC

VARIABLES
  weights,      \* the model's mask-bearing layers' weight tensors, in modules() order
  masks,        \* the same layers' mask tensors
  args,         \* the configuration record read by the Pruner
  step,         \* the step index of the last Pruner.step call (-1: none yet)
  status,       \* how the last call ended: "ok" or the exception raised
  applied,      \* calls that entered global_prune/local_prune (driver run)
  call,         \* the arguments of the last direct call of prune / *_prune
  ret,          \* the value the last direct call of prune returned
  trainer,      \* the locals of dense_trainer.train
  pruner_calls, \* Pruner.step calls made by the training loop
  pgd,          \* the attributes of the PGD object and forward's eps
  images,       \* forward's input batch (flattened), fixed-point
  adv_images,   \* forward's adversarial batch
  pgd_i,        \* forward's loop counter
  pgd_pc        \* forward's position

prunerVars == <<weights, masks, args, step, status, applied>>
callVars   == <<call, ret>>
trainVars  == <<trainer, pruner_calls>>
pgdVars    == <<pgd, images, adv_images, pgd_i, pgd_pc>>
vars       == <<prunerVars, callVars, trainVars, pgdVars>>

-----------------------------------------------------------------------------
(* Bounds of the model.                                                    *)

\* weight entries of the enumerated tensors lie in -1 .. MaxW
MaxW == 3
\* step indices passed to Pruner.step lie in 0 .. MaxStep
MaxStep == 4
\* the count of pruning applications saturates at MaxApplied
MaxApplied == 2
\* args.epochs lies in 1 .. MaxEpochs, len(trainloader) in 1 .. MaxLoader
MaxEpochs == 3
MaxLoader == 3
\* the PGD iteration count lies in 0 .. MaxPgdSteps
MaxPgdSteps == 2

-----------------------------------------------------------------------------
(* Tensor helpers.                                                         *)

Abs(x) == IF x < 0 THEN -x ELSE x

Rows(w) == Len(w)
Cols(w) == Len(w[1])

\* w.transpose(0, 1)
Transpose(w) == [j \in 1..Cols(w) |-> [o \in 1..Rows(w) |-> w[o][j]]]

RECURSIVE SumSeq(_)
SumSeq(s) == IF s = <<>> THEN 0 ELSE Head(s) + SumSeq(Tail(s))

RECURSIVE Insert(_, _)
Insert(x, s) ==
  IF s = <<>> THEN <<x>>
  ELSE IF x <= Head(s) THEN <<x>> \o s
  ELSE <<Head(s)>> \o Insert(x, Tail(s))

\* torch.sort(...)[0] of a vector: its values in ascending order
RECURSIVE SortAsc(_)
SortAsc(s) == IF s = <<>> THEN <<>> ELSE Insert(Head(s), SortAsc(Tail(s)))

\* torch.flatten(w): row-major
RECURSIVE Flatten(_)
Flatten(w) == IF w = <<>> THEN <<>> ELSE Head(w) \o Flatten(Tail(w))

\* torch.cat over a list of vectors (the same concatenation)
Cat(vs) == Flatten(vs)

Ones(w) == [o \in 1..Rows(w) |-> [j \in 1..Cols(w) |-> 1]]

\* elementwise module.weight * module.mask
Mul(w, m) == [o \in 1..Rows(w) |-> [j \in 1..Cols(w) |-> w[o][j] * m[o][j]]]

\* a fraction num/den
Frac(n, d) == [num |-> n, den |-> d]

IntOfRoundUp(perc, count) == (perc.num * count + perc.den - 1) \div perc.den

\* int(perc * count): truncation toward zero
IntOf(perc, count) ==
  IF perc.num * count >= 0
    THEN (perc.num * count) \div perc.den
    ELSE -((-(perc.num * count)) \div perc.den)

-----------------------------------------------------------------------------
(* prune(w, perc, prune_type)                                              *)

BelowOrEqual(norm, threshold) == norm <= threshold

NotInverted(b) == b

\* 1. - mask.float(): the removal indicator turned into the keep mask
Invert(b) == 1 - b

\* the comparison that marks an entry for removal: norm < threshold
Below(norm, threshold) == norm < threshold

\* the 'weight' branch.  After the transpose w has shape (n, out); idx is
\* int(perc * w.shape[0]) = int(perc * n); the sort runs along dim 0, so
\* entry idx of it is one threshold per output row.
PruneWeight(w, perc) ==
  LET wt        == Transpose(w)
      n         == Len(wt)
      out       == Len(wt[1])
      norm      == [j \in 1..n |-> [o \in 1..out |-> Abs(wt[j][o])]]
      idx       == IntOf(perc, n)
      sorted    == [o \in 1..out |-> SortAsc([j \in 1..n |-> norm[j][o]])]
  IN IF idx >= n \/ idx < -n
       THEN [err |-> "IndexError", mask |-> <<>>]
       ELSE LET pos       == IF idx >= 0 THEN idx + 1 ELSE n + idx + 1
                threshold == [o \in 1..out |-> sorted[o][pos]]
                mask      == [j \in 1..n |-> [o \in 1..out |->
                                IF Below(norm[j][o], threshold[o]) THEN 1 ELSE 0]]
                keep      == [j \in 1..n |-> [o \in 1..out |-> Invert(mask[j][o])]]
            IN [err |-> "none", mask |-> Transpose(keep)]

\* the 'unit' branch.  norm is torch.norm(w, dim=0) of the transposed
\* weight: one norm per output row (held squared); idx is
\* int(perc * w.shape[1]) = int(perc * out).
PruneUnit(w, perc) ==
  LET wt     == Transpose(w)
      n      == Len(wt)
      out    == Len(wt[1])
      norm   == [o \in 1..out |-> SumSeq([j \in 1..n |-> wt[j][o] * wt[j][o]])]
      idx    == IntOf(perc, out)
      sorted == SortAsc(norm)
  IN IF idx >= out \/ idx < -out
       THEN [err |-> "IndexError", mask |-> <<>>]
       ELSE LET pos       == IF idx >= 0 THEN idx + 1 ELSE out + idx + 1
                threshold == sorted[pos]
                mask      == [j \in 1..n |-> [o \in 1..out |->
                                IF Below(norm[o], threshold) THEN 1 ELSE 0]]
                keep      == [j \in 1..n |-> [o \in 1..out |-> Invert(mask[j][o])]]
            IN [err |-> "none", mask |-> Transpose(keep)]

prune(w, perc, prune_type) ==
  IF prune_type = "weight" THEN PruneWeight(w, perc)
  ELSE IF prune_type = "unit" THEN PruneUnit(w, perc)
  ELSE [err |-> "NotImplementedError", mask |-> <<>>]

-----------------------------------------------------------------------------
(* The Pruner (class Pruner).                                              *)

\* self.start_step = int(args.start_step * args.steps)
start_step == IntOf(args.start_step, args.steps)
\* self.end_step = int(args.end_step * args.steps)
end_step == IntOf(args.end_step, args.steps)

\* a fraction with a positive denominator
Norm(n, d) == IF d < 0 THEN Frac(-n, -d) ELSE Frac(n, d)

\* math.sin(pi/2 * j/4) for j = 0..4, in units of 1/SinDen
SinDen == 100000
SinTab == <<0, 38268, 70711, 92388, 100000>>

\* math.sin(math.pi / 2 * k / c) for 0 <= k <= c and c in {1, 2, 4}
QuarterSine(k, c) == SinTab[((k * 4) \div c) + 1]

\* abs(math.sin(math.pi / 2 * (s / c))): |sin| has period 2c in s and is
\* symmetric about c
AbsSine(s, c) ==
  LET k == s % (2 * c)
  IN QuarterSine(IF k > c THEN 2 * c - k ELSE k, c)

compute_sparsity(s) ==
  LET ini == args.initial_sparsity
      fin == args.final_sparsity
      c   == args.ramp_cycle_step
  IN CASE args.ramp_type = "linear" ->
            IF end_step - start_step = 0
              THEN [err |-> "ZeroDivisionError", val |-> Frac(0, 1)]
              ELSE [err |-> "none",
                    val |-> Norm(ini.num * fin.den * (end_step - start_step)
                                   + (fin.num * ini.den - ini.num * fin.den)
                                       * (s - start_step),
                                 ini.den * fin.den * (end_step - start_step))]
       [] args.ramp_type = "half_cycle" ->
            IF c = 0
              THEN [err |-> "ZeroDivisionError", val |-> Frac(0, 1)]
              ELSE [err |-> "none",
                    val |-> Frac(fin.num * QuarterSine(s % c, c), fin.den * SinDen)]
       [] args.ramp_type = "full_cycle" ->
            IF c = 0
              THEN [err |-> "ZeroDivisionError", val |-> Frac(0, 1)]
              ELSE [err |-> "none",
                    val |-> Frac(fin.num * AbsSine(s, c), fin.den * SinDen)]
       [] OTHER -> [err |-> "UnboundLocalError", val |-> Frac(0, 1)]

\* the comparison that keeps an entry under global pruning: abs(w) > threshold
Above(norm, threshold) == norm > threshold

\* global_prune(model, prune_compute): one threshold over the concatenated
\* weights; every mask is assigned after all of them were computed
global_prune(ms, prune_compute) ==
  LET scores == Cat([l \in 1..Len(weights) |-> Flatten(weights[l])])
      idx    == IntOf(prune_compute, Len(scores))
      norm   == [i \in 1..Len(scores) |-> Abs(scores[i])]
      sorted == SortAsc(norm)
  IN IF idx >= Len(scores) \/ idx < -Len(scores)
       THEN [err |-> "IndexError", masks |-> ms]
       ELSE LET threshold == sorted[IF idx >= 0 THEN idx + 1
                                               ELSE Len(scores) + idx + 1]
            IN [err |-> "none",
                masks |-> [l \in 1..Len(weights) |->
                             [o \in 1..Rows(weights[l]) |->
                                [j \in 1..Cols(weights[l]) |->
                                   IF Above(Abs(weights[l][o][j]), threshold)
                                     THEN 1 ELSE 0]]]]

\* round(x, 2) of x = 1 - ones/size, in hundredths (ties to even)
Round2(ones, size) ==
  LET z == 100 * (size - ones)
      q == z \div size
      r == z % size
  IN IF 2 * r < size THEN q
     ELSE IF 2 * r > size THEN q + 1
     ELSE IF q % 2 = 0 THEN q ELSE q + 1

\* mask_sparsity of one layer's mask, in hundredths
mask_sparsity(m) == Round2(SumSeq(Flatten(m)), Len(Flatten(m)))

\* mask_sparsity <= self.args.final_sparsity
SparsityGuard(m) ==
  mask_sparsity(m) * args.final_sparsity.den <= 100 * args.final_sparsity.num

\* the input of prune for one layer: weight * mask under carry_mask
PruneInput(l, ms) ==
  IF args.carry_mask THEN Mul(weights[l], ms[l]) ELSE weights[l]

\* the loop of local_prune from layer l on: a layer's mask is replaced as soon
\* as it is computed, and an exception leaves the later layers untouched
RECURSIVE LocalFrom(_, _, _)
LocalFrom(l, ms, prune_compute) ==
  IF l > Len(weights) THEN [err |-> "none", masks |-> ms]
  ELSE IF ~SparsityGuard(ms[l]) THEN LocalFrom(l + 1, ms, prune_compute)
  ELSE LET r == prune(PruneInput(l, ms), prune_compute, args.prune_type)
       IN IF r.err # "none"
            THEN [err |-> r.err, masks |-> ms]
            ELSE LocalFrom(l + 1, [ms EXCEPT ![l] = r.mask], prune_compute)

local_prune(ms, prune_compute) == LocalFrom(1, ms, prune_compute)

\* the dispatch on args.global_prune shared by both schedules
ApplyPrune(ms, prune_compute) ==
  LET r == IF args.global_prune THEN global_prune(ms, prune_compute)
                                ELSE local_prune(ms, prune_compute)
  IN [err |-> r.err, masks |-> r.masks, fired |-> TRUE]

Untouched(ms, e) == [err |-> e, masks |-> ms, fired |-> FALSE]

RampingWindowClosed(s) == start_step <= s /\ s <= end_step

\* start_step <= step < end_step
RampingWindow(s) == start_step <= s /\ s < end_step

ramping_prune(ms, s) ==
  LET c == compute_sparsity(s)
  IN IF c.err # "none" THEN Untouched(ms, c.err)
     ELSE LET prune_percent == IF s = end_step THEN args.final_sparsity ELSE c.val
          IN IF RampingWindow(s) /\ s % args.prune_freq = 0
               THEN ApplyPrune(ms, prune_percent)
               ELSE Untouched(ms, "none")

SingleShotFrom(s) == s >= start_step

\* step == self.start_step
SingleShotAt(s) == s = start_step

single_shot_prune(ms, s) ==
  IF SingleShotAt(s) THEN ApplyPrune(ms, args.final_sparsity)
  ELSE Untouched(ms, "none")

\* Pruner.step(model, step)
PrunerStep(ms, s) ==
  IF args.ramping THEN ramping_prune(ms, s) ELSE single_shot_prune(ms, s)

-----------------------------------------------------------------------------
(* Models and configurations.                                              *)

\* the mask-bearing layers of a model: lists of weight tensors
Models ==
  { << <<<<1, -2>>, <<3, 4>>>>, <<<<5, -6, 7>>>> >>,
    << <<<<0, 1>>, <<1, 2>>>>, <<<<2, 2, 0>>>> >>,
    << <<<<3, 1, 2>>, <<-1, 4, 0>>>> >>,
    << <<<<1, 2, 3, 4>>>>, <<<<-3>>, <<2>>, <<1>>>> >>,
    << <<<<1, 2, 3>>, <<4, 5, 6>>, <<7, 8, 9>>, <<10, 11, 12>>>> >> }

\* a freshly built layer's mask: all ones
InitialMasks(ws) == [l \in 1..Len(ws) |-> Ones(ws[l])]

Quarter(k) == Frac(k, 4)

PruneModes ==
  [global_prune : {TRUE}, carry_mask : {FALSE},
   prune_type : {"weight", "unit", "other"}]
  \cup [global_prune : {FALSE}, carry_mask : BOOLEAN,
        prune_type : {"weight", "unit", "other"}]

Schedules ==
  [ramping : {FALSE}, ramp_type : {"linear"}, initial_sparsity : {Quarter(0)},
   final_sparsity : {Quarter(1), Quarter(3)},
   start_step : {Quarter(0), Quarter(1), Quarter(2), Quarter(4)},
   end_step : {Quarter(4)}, prune_freq : {1}, ramp_cycle_step : {1}]
  \cup [ramping : {TRUE}, ramp_type : {"linear"},
        initial_sparsity : {Quarter(0), Quarter(1)},
        final_sparsity : {Quarter(1), Quarter(3)},
        start_step : {Quarter(0), Quarter(2)},
        end_step : {Quarter(2), Quarter(3)},
        prune_freq : {1, 2}, ramp_cycle_step : {1}]
  \cup [ramping : {TRUE}, ramp_type : {"half_cycle", "full_cycle"},
        initial_sparsity : {Quarter(0)},
        final_sparsity : {Quarter(3)},
        start_step : {Quarter(0), Quarter(2)},
        end_step : {Quarter(3)},
        prune_freq : {1, 2}, ramp_cycle_step : {2, 4}]

Configs ==
  { [ramping |-> sc.ramping, global_prune |-> pm.global_prune,
     carry_mask |-> pm.carry_mask, prune_type |-> pm.prune_type,
     ramp_type |-> sc.ramp_type, initial_sparsity |-> sc.initial_sparsity,
     final_sparsity |-> sc.final_sparsity, start_step |-> sc.start_step,
     end_step |-> sc.end_step, steps |-> MaxStep,
     prune_freq |-> sc.prune_freq, ramp_cycle_step |-> sc.ramp_cycle_step] :
    pm \in PruneModes, sc \in Schedules }

-----------------------------------------------------------------------------
(* Idle values of the variables a specification does not use.              *)

IdleCall  == call = [op |-> "none"] /\ ret = [err |-> "none", mask |-> <<>>]
IdleTrain == trainer = [pc |-> "idle"] /\ pruner_calls = 0
IdlePGD   == /\ pgd = [pc |-> "idle"] /\ images = <<>> /\ adv_images = <<>>
             /\ pgd_i = 0 /\ pgd_pc = "idle"
IdlePruner == /\ weights = <<>> /\ masks = <<>> /\ args = [ramping |-> FALSE]
              /\ step = -1 /\ status = "ok" /\ applied = 0

-----------------------------------------------------------------------------
(* Spec: Pruner.step called with any step index.                           *)

InitPruner ==
  /\ weights \in Models
  /\ masks = InitialMasks(weights)
  /\ args \in Configs
  /\ step = -1
  /\ status = "ok"
  /\ applied = 0

Init == InitPruner /\ IdleCall /\ IdleTrain /\ IdlePGD

\* one call Pruner.step(model, s)
Step(s) ==
  LET r == PrunerStep(masks, s)
  IN /\ masks' = r.masks
     /\ status' = IF r.err = "none" THEN "ok" ELSE r.err
     /\ step' = s
     /\ applied' = IF r.fired /\ applied < MaxApplied THEN applied + 1 ELSE applied
     /\ UNCHANGED <<weights, args, callVars, trainVars, pgdVars>>

Next == \E s \in 0..MaxStep : Step(s)

Spec == Init /\ [][Next]_vars

-----------------------------------------------------------------------------
(* SpecRun: a driver that calls Pruner.step with step = 0, 1, ...,         *)
(* args.steps - 1, in this order.                                          *)

RunStep ==
  /\ step + 1 < args.steps
  /\ Step(step + 1)

NextRun == RunStep

SpecRun == Init /\ [][NextRun]_vars

-----------------------------------------------------------------------------
(* Claims about Pruner.step.                                               *)

AnyMaskPruned == masks # InitialMasks(weights)

\* C1: in ramping mode a call Pruner.step(model, s) changes a mask only if
\* start_step <= s < end_step and s % prune_freq = 0; at every other step
\* index (before the window, at or after end_step, off the cadence) every
\* mask stays exactly as the last applied pruning left it.
C1_RampingFrame ==
  [][(args.ramping /\ ~(/\ start_step <= step'
                        /\ step' < end_step
                        /\ step' % args.prune_freq = 0))
       => masks' = masks]_vars

\* a call at step = end_step returned normally and left pruned masks in place
C1_Witness ==
  /\ args.ramping
  /\ step = end_step
  /\ status = "ok"
  /\ AnyMaskPruned

\* C2 as stated: in single-shot mode, at the end of a run over the step
\* indices 0 .. steps-1, pruning was applied at exactly one step, for every
\* start_step fraction in [0, 1].
C2_ExactlyOnceOriginal ==
  (~args.ramping /\ step = args.steps - 1) => applied = 1

\* C2 as amended: over the run 0 .. steps-1 in single-shot mode, pruning is
\* applied at the step equal to start_step and at no other step, so at exactly
\* one step when start_step < steps and at none when start_step = steps (a
\* start_step fraction of 1); at every other step all masks are unchanged.
C2_ExactlyOnceAmended ==
  /\ [](~args.ramping =>
          applied = IF start_step <= step THEN 1 ELSE 0)
  /\ [](~args.ramping /\ step = args.steps - 1 =>
          applied = IF start_step < args.steps THEN 1 ELSE 0)
  /\ [][(~args.ramping /\ step' # start_step) => masks' = masks]_vars

\* a finished single-shot run in which the one application pruned something
C2_Witness ==
  /\ ~args.ramping
  /\ step = args.steps - 1
  /\ applied = 1
  /\ AnyMaskPruned

\* the last call reached a pruning application
ReachedApplication ==
  /\ step >= 0
  /\ IF args.ramping
       THEN /\ compute_sparsity(step).err = "none"
            /\ start_step <= step /\ step < end_step
            /\ step % args.prune_freq = 0
       ELSE step = start_step

\* C8: whenever Pruner.step reaches a pruning application while prune_type
\* is neither 'weight' nor 'unit', the call fails with an error, under
\* global_prune = true as under global_prune = false.
C8_UnsupportedTypeFails ==
  (ReachedApplication /\ args.prune_type \notin {"weight", "unit"})
    => status = "NotImplementedError"

-----------------------------------------------------------------------------
(* SpecCalls: the pruning pass the configuration selects (global_prune if  *)
(* args.global_prune, local_prune otherwise) called directly, with any     *)
(* sequence of fractions in [0, 1).                                        *)

CallFractions == {Quarter(k) : k \in 0..3}

CallConfigs ==
  {c \in Configs : ~c.ramping /\ c.start_step = Quarter(0)}

InitCalls ==
  /\ weights \in Models
  /\ masks = InitialMasks(weights)
  /\ args \in CallConfigs
  /\ step = -1
  /\ status = "ok"
  /\ applied = 0
  /\ IdleCall /\ IdleTrain /\ IdlePGD

CallGlobalPrune(f) ==
  LET r == global_prune(masks, f)
  IN /\ args.global_prune
     /\ masks' = r.masks
     /\ status' = IF r.err = "none" THEN "ok" ELSE r.err
     /\ call' = [op |-> "global_prune", frac |-> f]
     /\ UNCHANGED <<weights, args, step, applied, ret, trainVars, pgdVars>>

CallLocalPrune(f) ==
  LET r == local_prune(masks, f)
  IN /\ ~args.global_prune
     /\ masks' = r.masks
     /\ status' = IF r.err = "none" THEN "ok" ELSE r.err
     /\ call' = [op |-> "local_prune", frac |-> f]
     /\ UNCHANGED <<weights, args, step, applied, ret, trainVars, pgdVars>>

NextCalls ==
  \E f \in CallFractions : CallGlobalPrune(f) \/ CallLocalPrune(f)

SpecCalls == InitCalls /\ [][NextCalls]_vars

AllScores == Cat([l \in 1..Len(weights) |-> Flatten(weights[l])])
AllMaskBits == Cat([l \in 1..Len(masks) |-> Flatten(masks[l])])

DistinctMagnitudes(v) ==
  \A i, k \in 1..Len(v) : i # k => Abs(v[i]) # Abs(v[k])

\* C4: for layers whose weights have pairwise distinct magnitudes and a
\* fraction in [0, 1), after global_prune(model, fraction) the masks hold
\* total_count - floor(fraction * total_count) ones in all.
C4_GlobalKeepCount ==
  (call.op = "global_prune" /\ status = "ok" /\ DistinctMagnitudes(AllScores))
    => SumSeq(AllMaskBits)
         = Len(AllScores) - IntOf(call.frac, Len(AllScores))

\* C7: with carry_mask and local pruning, a call of local_prune (with any
\* fraction in [0, 1)) leaves at 0 every mask position that was 0 before it.
C7_CarryMaskMonotone ==
  [][(args.carry_mask /\ call'.op = "local_prune")
       => \A l \in 1..Len(masks) : \A o \in 1..Rows(masks[l]) :
            \A j \in 1..Cols(masks[l]) :
              masks[l][o][j] = 0 => masks'[l][o][j] = 0]_vars

-----------------------------------------------------------------------------
(* SpecPrune: the function prune applied to one weight tensor.             *)

Vals == -1..MaxW

TensorsOfShape(out, n) == [1..out -> [1..n -> Vals]]

\* the weight of the worked example: shape (4, 3), values 1..12
ExampleWeight == <<<<1, 2, 3>>, <<4, 5, 6>>, <<7, 8, 9>>, <<10, 11, 12>>>>

Tensors ==
  TensorsOfShape(2, 2) \cup TensorsOfShape(1, 3) \cup TensorsOfShape(3, 1)
    \cup {ExampleWeight,
          <<<<3, -1, 2>>, <<-4, 6, 5>>>>,
          <<<<-2, 7>>, <<1, 4>>, <<6, -3>>>>,
          <<<<5, 1, -4, 2>>, <<3, 8, 6, -7>>>>}

Percs == {Quarter(k) : k \in 0..4}

InitPrune ==
  /\ call \in [op : {"prune"}, w : Tensors, perc : Percs,
               prune_type : {"weight", "unit", "other"}]
  /\ ret = [err |-> "none", mask |-> <<>>]
  /\ IdlePruner /\ IdleTrain /\ IdlePGD

\* mask = prune(w, perc, prune_type)
PruneCall ==
  /\ call.op = "prune"
  /\ ret' = prune(call.w, call.perc, call.prune_type)
  /\ call' = [call EXCEPT !.op = "returned"]
  /\ UNCHANGED <<prunerVars, trainVars, pgdVars>>

NextPrune == PruneCall

SpecPrune == InitPrune /\ [][NextPrune]_vars

Returned(t) == call.op = "returned" /\ call.prune_type = t

SameShape(m, w) ==
  /\ Len(m) = Rows(w)
  /\ \A o \in 1..Rows(w) : Len(m[o]) = Cols(w)

BelowOne(perc) == 0 <= perc.num /\ perc.num < perc.den

\* C5 as stated: under 'weight' granularity, for a weight of shape
\* (out_features, n) with pairwise distinct magnitudes and f in [0, 1), the
\* mask has, at each of the n trailing positions, zeros at exactly the
\* floor(f * out_features) smallest-magnitude entries among the out_features
\* values at that position, and ones elsewhere.
C5_PerPositionOriginal ==
  (Returned("weight") /\ BelowOne(call.perc)
     /\ DistinctMagnitudes(Flatten(call.w)))
    => /\ ret.err = "none"
       /\ SameShape(ret.mask, call.w)
       /\ \A o \in 1..Rows(call.w) : \A j \in 1..Cols(call.w) :
            ret.mask[o][j] \in {0, 1}
            /\ (ret.mask[o][j] = 0
                  <=> Cardinality({o2 \in 1..Rows(call.w) :
                                     Abs(call.w[o2][j]) < Abs(call.w[o][j])})
                        < IntOf(call.perc, Rows(call.w)))

\* C5 as amended: under 'weight' granularity, for a weight of shape
\* (out_features, n) with pairwise distinct magnitudes and f in [0, 1), the
\* mask has the weight's shape and, in each of the out_features rows, zeros at
\* exactly the floor(f * n) smallest-magnitude entries among that row's n
\* values, and ones elsewhere.
C5_PerRowAmended ==
  (Returned("weight") /\ BelowOne(call.perc)
     /\ DistinctMagnitudes(Flatten(call.w)))
    => /\ ret.err = "none"
       /\ SameShape(ret.mask, call.w)
       /\ \A o \in 1..Rows(call.w) : \A j \in 1..Cols(call.w) :
            ret.mask[o][j] \in {0, 1}
            /\ (ret.mask[o][j] = 0
                  <=> Cardinality({j2 \in 1..Cols(call.w) :
                                     Abs(call.w[o][j2]) < Abs(call.w[o][j])})
                        < (call.perc.num * Cols(call.w)) \div call.perc.den)

\* the worked example: shape (4, 3), f = 0.5; the smallest entry of each row
\* of 3 is zeroed
C5_Witness ==
  /\ Returned("weight")
  /\ call.w = ExampleWeight
  /\ call.perc = Quarter(2)
  /\ ret.mask = <<<<0, 1, 1>>, <<0, 1, 1>>, <<0, 1, 1>>, <<0, 1, 1>>>>

MinMagnitude(w) ==
  CHOOSE m \in {Abs(x) : x \in {Flatten(w)[i] : i \in 1..Len(Flatten(w))}} :
    \A i \in 1..Len(Flatten(w)) : m <= Abs(Flatten(w)[i])

RowNormSq(w, o) == SumSeq([j \in 1..Cols(w) |-> w[o][j] * w[o][j]])

\* C6 as stated: prune(weight, 0, granularity) returns a mask in which at
\* least the minimum-magnitude element ('weight') or the minimum-norm unit
\* ('unit') is zero.
C6_MinimumPrunedOriginal ==
  /\ (Returned("weight") /\ call.perc.num = 0)
       => /\ ret.err = "none"
          /\ \E o \in 1..Rows(call.w) : \E j \in 1..Cols(call.w) :
               /\ Abs(call.w[o][j]) = MinMagnitude(call.w)
               /\ ret.mask[o][j] = 0
  /\ (Returned("unit") /\ call.perc.num = 0)
       => /\ ret.err = "none"
          /\ \E o \in 1..Rows(call.w) :
               /\ \A o2 \in 1..Rows(call.w) :
                    RowNormSq(call.w, o) <= RowNormSq(call.w, o2)
               /\ \A j \in 1..Cols(call.w) : ret.mask[o][j] = 0

\* C6 as amended: for every non-empty weight tensor, prune(weight, 0,
\* granularity) with granularity 'weight' or 'unit' returns the all-ones mask:
\* the threshold is the minimum value present and no entry is strictly below
\* it, so nothing is pruned, the minimum element or unit included.
C6_NothingPrunedAmended ==
  (call.op = "returned" /\ call.prune_type \in {"weight", "unit"}
     /\ call.perc.num = 0)
    => /\ ret.err = "none"
       /\ ret.mask = [o \in 1..Rows(call.w) |-> [j \in 1..Cols(call.w) |-> 1]]

\* prune returned for f = 0 on a tensor with a unique minimum
C6_Witness ==
  /\ Returned("unit")
  /\ call.perc = Quarter(0)
  /\ call.w = <<<<0, 1>>, <<2, 3>>>>
  /\ ret.mask = <<<<1, 1>>, <<1, 1>>>>

-----------------------------------------------------------------------------
(* SpecTrain: dense_trainer.train.                                         *)

\* args.steps is None
None == -1

InitTrain ==
  /\ trainer \in [pc : {"start"}, args_steps : {None, 2},
                  epochs : 1..MaxEpochs, loader_len : 1..MaxLoader,
                  eval_step : {1, 2}, steps : {None}, batch_idx : {0},
                  n_epochs : {0}, it_pos : {0}, optimizer_steps : {0},
                  evals : {0}]
  /\ pruner_calls = 0
  /\ IdlePruner /\ IdleCall /\ IdlePGD

\* lines 44-56: the local `steps' is bound only when args.steps is None;
\* otherwise range(0, steps, 1) raises UnboundLocalError
TrainStart ==
  /\ trainer.pc = "start"
  /\ trainer' =
       IF trainer.args_steps = None
         THEN [trainer EXCEPT !.pc = "loop",
                              !.steps = trainer.epochs * trainer.loader_len]
         ELSE [trainer EXCEPT !.pc = "UnboundLocalError"]
  /\ UNCHANGED <<pruner_calls, prunerVars, callVars, pgdVars>>

TrainIterWithPrunerStep ==
  /\ trainer.pc = "loop"
  /\ trainer.batch_idx < trainer.steps
  /\ trainer' = [trainer EXCEPT !.batch_idx = @ + 1, !.optimizer_steps = @ + 1]
  /\ pruner_calls' = pruner_calls + 1
  /\ UNCHANGED <<prunerVars, callVars, pgdVars>>

\* one iteration of the loop over batch_idx: the epoch rollover, the next
\* batch, forward, backward, optimizer.step, lr_scheduler.step and the
\* periodic evaluation.  No Pruner is built and Pruner.step is not called.
TrainIter ==
  /\ trainer.pc = "loop"
  /\ trainer.batch_idx < trainer.steps
  /\ LET rollover == trainer.batch_idx = trainer.n_epochs * trainer.loader_len
     IN trainer' =
          [trainer EXCEPT
             !.n_epochs = IF rollover THEN @ + 1 ELSE @,
             !.it_pos = (IF rollover THEN 0 ELSE @) + 1,
             !.optimizer_steps = @ + 1,
             !.evals = IF trainer.batch_idx % trainer.eval_step = 0
                         THEN @ + 1 ELSE @,
             !.batch_idx = @ + 1]
  /\ UNCHANGED <<pruner_calls, prunerVars, callVars, pgdVars>>

\* lines 90-95: the loop is over; the final evaluation and the return
TrainDone ==
  /\ trainer.pc = "loop"
  /\ trainer.batch_idx = trainer.steps
  /\ trainer' = [trainer EXCEPT !.pc = "done", !.evals = @ + 1]
  /\ UNCHANGED <<pruner_calls, prunerVars, callVars, pgdVars>>

NextTrain == TrainStart \/ TrainIter \/ TrainDone

SpecTrain == InitTrain /\ [][NextTrain]_vars

-----------------------------------------------------------------------------
(* SpecPGD: PGD.forward.  Pixel values are fixed-point, in units of        *)
(* 1/Scale: the range [0, 1] is 0 .. Scale.                                *)

Scale == 10
\* self.eps = 0.3
DefaultEps == 3

PixelVals == {0, 1, 5, Scale - 1, Scale}
Batches == [1..2 -> PixelVals]

ClampMinOnly(x, lo, hi) == IF x < lo THEN lo ELSE x

\* torch.clamp(x, min=lo, max=hi) of one element
Clamp(x, lo, hi) == IF x < lo THEN lo ELSE IF x > hi THEN hi ELSE x

InitPGD ==
  /\ pgd \in [pc : {"attack"}, self_eps : {DefaultEps}, alpha : {1, 4},
              steps : 0..MaxPgdSteps, random_start : BOOLEAN,
              eps : {None, 0, 2, Scale + 2}]
  /\ images \in Batches
  /\ adv_images = <<>>
  /\ pgd_i = 0
  /\ pgd_pc = "start"
  /\ IdlePruner /\ IdleCall /\ IdleTrain

\* lines 48-59: the copy of the input, the default eps and the random start
PgdStart ==
  /\ pgd_pc = "start"
  /\ LET eps == IF pgd.eps = None THEN pgd.self_eps ELSE pgd.eps
     IN /\ pgd' = [pgd EXCEPT !.eps = eps]
        /\ IF pgd.random_start
             THEN \E noise \in [1..Len(images) -> (-eps)..eps] :
                    adv_images' = [p \in 1..Len(images) |->
                                     Clamp(images[p] + noise[p], 0, Scale)]
             ELSE adv_images' = images
  /\ pgd_i' = 0
  /\ pgd_pc' = "loop"
  /\ UNCHANGED <<images, prunerVars, callVars, trainVars>>

\* lines 61-73: one iteration; the gradient's sign is any of -1, 0, 1 per
\* element
PgdIter ==
  /\ pgd_pc = "loop"
  /\ pgd_i < pgd.steps
  /\ \E sign \in [1..Len(images) -> {-1, 0, 1}] :
       LET stepped == [p \in 1..Len(images) |->
                         adv_images[p] + pgd.alpha * sign[p]]
           delta   == [p \in 1..Len(images) |->
                         Clamp(stepped[p] - images[p], -pgd.eps, pgd.eps)]
       IN adv_images' = [p \in 1..Len(images) |->
                           Clamp(images[p] + delta[p], 0, Scale)]
  /\ pgd_i' = pgd_i + 1
  /\ UNCHANGED <<pgd, images, pgd_pc, prunerVars, callVars, trainVars>>

\* line 75: return adv_images
PgdReturn ==
  /\ pgd_pc = "loop"
  /\ pgd_i = pgd.steps
  /\ pgd_pc' = "returned"
  /\ UNCHANGED <<pgd, images, adv_images, pgd_i, prunerVars, callVars, trainVars>>

NextPGD == PgdStart \/ PgdIter \/ PgdReturn

SpecPGD == InitPGD /\ [][NextPGD]_vars

\* C10: for an input batch in [0, 1], eps >= 0, any iteration count and
\* either setting of random_start, after each PGD iteration and in the value
\* PGD.forward returns every element of the adversarial batch lies in [0, 1]
\* and differs from the original input element by at most eps.
C10_AdversarialInBall ==
  pgd_pc \in {"loop", "returned"} =>
    \A p \in 1..Len(images) :
      /\ 0 <= adv_images[p] /\ adv_images[p] <= Scale
      /\ adv_images[p] - images[p] <= pgd.eps
      /\ images[p] - adv_images[p] <= pgd.eps

\* forward returned after two iterations with an element moved to the edge of
\* the eps-ball and another held at the edge of [0, 1]
C10_Witness ==
  /\ pgd_pc = "returned"
  /\ pgd_i = 2
  /\ pgd.eps = 2
  /\ images = <<5, Scale>>
  /\ adv_images = <<7, Scale>>

=============================================================================
